---------------------------- MODULE Spec2Model ----------------------------
(***************************************************************************)
(* A model of src/main.rs of slope: a Bevy application whose Startup       *)
(* system setup_world builds the scene and whose five Update systems       *)
(* (correct_skybox, follow_player, handle_input, generate_floor,           *)
(* check_distance) run once per frame in an order the engine chooses.      *)
(*                                                                         *)
(* One frame of the engine's Main schedule is modelled as the phases       *)
(*   First (Events::update) -> PreUpdate (keyboard, asset progress) ->     *)
(*   StateTransition (NextState applied) -> Update (the five systems, any  *)
(*   order, then the deferred commands) -> PostUpdate (physics).           *)
(*                                                                         *)
(* Units.  Translations are integers in tenths of a world unit             *)
(* (z = 9.4 is 94).  Velocity.linvel.x is an f32: it is kept as an integer *)
(* number of 2^-27 and every addition is rounded as IEEE-754 binary32      *)
(* rounds it (24 bit significand, ties to even).                           *)
(***************************************************************************)
EXTENDS Integers, Sequences, FiniteSets

VARIABLES
    phase,          \* schedule the frame is in, or "Startup" / "Panicked"
    tick,           \* number of the current frame (0 during Startup)
    pending,        \* Update systems that have not run yet in this frame
    entities,       \* the ECS world: a sequence of entities
    commands,       \* deferred Commands queued by generate_floor in this frame
    linvel_x,       \* Velocity.linvel.x of the player (f32, units of 2^-27)
    window_mode,    \* Window.mode of the primary window
    pressed,        \* Input<KeyCode>: keys currently pressed
    just_pressed,   \* Input<KeyCode>: keys pressed since the last frame
    app_state,      \* State<AppState>
    next_state,     \* NextState<AppState>: "None" or the queued state
    events_a,       \* Events<GenerateMapEvent>.events_a (older buffer)
    events_b,       \* Events<GenerateMapEvent>.events_b (newer buffer)
    event_count,    \* Events<GenerateMapEvent>.event_count
    reader_last,    \* generate_floor's EventReader cursor (last_event_count)
    cubemap,        \* the Cubemap resource
    load_state,     \* AssetServer's load state of cubemap.image_handle
    image,          \* the skybox Image asset
    skybox,         \* the Skybox component of the camera entity
    panicked,       \* "none", or the system whose unwrap failed
    hist            \* history of the run, read only by the properties below

vars == <<phase, tick, pending, entities, commands, linvel_x, window_mode,
          pressed, just_pressed, app_state, next_state, events_a, events_b,
          event_count, reader_last, cubemap, load_state, image, skybox,
          panicked, hist>>

--------------------------------------------------------------------------
(* Bounds of the model. *)

\* frames explored by the floor / camera / skybox specifications
MaxTick == 4
\* frames explored by the input specification
MaxInputTick == 7

--------------------------------------------------------------------------
(* Program constants. *)

\* 0.1f32 = 13421773 * 2^-27, the step of handle_input
DELTA == 13421773
\* the modulus of check_distance
SEGMENT_EVERY == 10
\* translation.y - 2.0 in generate_floor, in tenths
FLOOR_DROP == 20
\* -PI / 8 in generate_floor, in tenths of a degree
FLOOR_TILT == -225
\* camera offsets of follow_player, in tenths
CAM_UP == 50
CAM_BACK == 100
\* Transform::from_xyz(0.0, 4.0, 0.0) of the player, y in tenths
PLAYER_START_Y == 40
\* -PI / 2 of the directional light, in tenths of a degree
LIGHT_TILT == -900
Systems == {"correct_skybox", "follow_player", "handle_input",
            "generate_floor", "check_distance"}


--------------------------------------------------------------------------
(* Arithmetic of the code. *)

Abs(n) == IF n < 0 THEN -n ELSE n

\* f32::ceil of a translation given in tenths, as a whole number of units
Ceil(z) == -((-z) \div 10)

\* the test of check_distance: transform.translation.z.ceil().abs() % 10. == 0.
\* (ceil first, abs second; -0.0 == 0.0 holds)
\* (variants with a bug: abs first and ceil second; ceil left out)
TriggerFlipped(z) == Ceil(Abs(z)) % SEGMENT_EVERY = 0
TriggerOnFloor(z) == Abs(z \div 10) % SEGMENT_EVERY = 0
TriggerNoCeil(z) == (Abs(z) \div 10) % SEGMENT_EVERY = 0
Trigger(z) == Abs(Ceil(z)) % SEGMENT_EVERY = 0

\* the unit in the last place of an f32 of magnitude m (m >= 0, units of 2^-27)
RECURSIVE UlpOf(_, _)
UlpOf(m, u) == IF m \div u < 16777216 THEN u ELSE UlpOf(m, 2 * u)

\* m >= 0 rounded to a multiple of u, ties to the even multiple
RoundTiesEven(m, u) ==
    LET q == m \div u
        r == m % u
    IN  IF 2 * r < u THEN q * u
        ELSE IF 2 * r > u THEN (q + 1) * u
        ELSE IF q % 2 = 0 THEN q * u ELSE (q + 1) * u

\* the exact real v rounded to the nearest f32
F32Round(v) ==
    LET m == Abs(v)
        r == RoundTiesEven(m, UlpOf(m, 1))
    IN  IF v < 0 THEN -r ELSE r

\* f32 `a + b` and `a - b`
F32Add(a, b) == F32Round(a + b)
F32Sub(a, b) == F32Round(a - b)

--------------------------------------------------------------------------
(* The ECS world. *)

Vec3(x, y, z) == <<x, y, z>>
ZERO == Vec3(0, 0, 0)

\* a rotation: how it was built and from what
Rotation(kind, arg) == [kind |-> kind, arg |-> arg]
IDENTITY == Rotation("identity", ZERO)

Entity(comps, translation, rotation) ==
    [comps |-> comps, translation |-> translation, rotation |-> rotation]

\* Query<_, (With<with>, Without<without>)>: the matching entities
Query(with, without) ==
    {i \in DOMAIN entities :
        /\ with \subseteq entities[i].comps
        /\ without \cap entities[i].comps = {}}

\* Query<&mut Transform, With<Camera>>
CameraQuery == Query({"Transform", "Camera"}, {})
\* Query<&Transform, (With<Player>, Without<Camera>)>
PlayerQuery == Query({"Transform", "Player"}, {"Camera"})
\* Query<&mut Velocity, With<Player>>
VelocityQuery == Query({"Velocity", "Player"}, {})
\* Query<&mut Window>
WindowQuery == Query({"Window"}, {})
\* Query<&mut Skybox>
SkyboxQuery == Query({"Skybox"}, {})

\* get_single() / single(): the entity, when there is exactly one
IsSingle(q) == Cardinality(q) = 1
TheOne(q) == CHOOSE i \in q : TRUE

\* the player's translation (meaningful while the player is single)
PlayerPos == entities[TheOne(PlayerQuery)].translation
PlayerZ == PlayerPos[3]

--------------------------------------------------------------------------
(* Events<GenerateMapEvent>: two buffers; a reader sees what is in them.   *)
(* An event is a unit struct; its id is its EventId, and `tick`, `at` and  *)
(* `state` (the frame it was sent in, the player's translation and the     *)
(* AppState then) are history, read only by the properties.                *)

Event(at) == [id |-> event_count, tick |-> tick, at |-> at, state |-> app_state]

\* EventWriter::send: push onto events_b
Send(buf, at) == Append(buf, Event(at))

\* EventReader::read: every buffered event the cursor has not passed
Unread == SelectSeq(events_a \o events_b, LAMBDA e : e.id >= reader_last)

--------------------------------------------------------------------------
(* Initial state: the App is built (DefaultPlugins have made the primary   *)
(* window; add_state has made State = default = Idle and NextState = None; *)
(* add_event has made an empty Events) and Startup has not run yet.        *)

\* The fields of hist:
\*   emitted     events check_distance has sent in the current frame
\*   run_spawns  segments spawned in the current maximal run of consecutive
\*               frames in which the test of check_distance is true
\*   causes      for each segment spawned, in order, the event consumed
\*   body_runs   times the body of correct_skybox has run
\*   loaded_at   the frame in which it ran (0: never)
\*   prev_z      the player's z in the previous frame
\*   key_run     the run of frames in which A alone or S alone is held: the
\*               key, the frames so far, what handle_input added to linvel.x
\*   f11_odd     whether F11 has gone from released to pressed an odd number
\*               of times
\*   order       which of generate_floor and check_distance the engine runs
\*               first in every frame of this run ("any": it is free to choose)
\*   path        the player's translation after each frame, where the run
\*               follows a given one
\*   first       the segments spawned by the run before this one
NoRun == [key |-> "none", n |-> 0, delta |-> 0]

Built ==
    /\ phase = "Startup"
    /\ tick = 0
    /\ pending = {}
    /\ entities = <<Entity({"Window"}, ZERO, IDENTITY)>>
    /\ commands = <<>>
    /\ linvel_x = 0
    /\ window_mode = "Windowed"
    /\ pressed = {}
    /\ just_pressed = {}
    /\ app_state = "Idle"
    /\ next_state = "None"
    /\ events_a = <<>>
    /\ events_b = <<>>
    /\ event_count = 0
    /\ reader_last = 0
    /\ cubemap = [is_loaded |-> FALSE, image_handle |-> "none"]
    /\ load_state = "NotLoaded"
    /\ image = [width |-> 0, height |-> 0, layers |-> 0, view |-> "None"]
    /\ skybox = "none"
    /\ panicked = "none"

\* nothing has happened yet
NoHistory ==
    [emitted |-> 0, run_spawns |-> 0, causes |-> <<>>,
     body_runs |-> 0, loaded_at |-> 0, prev_z |-> 0,
     key_run |-> NoRun, f11_odd |-> FALSE,
     order |-> "any", path |-> <<>>, first |-> <<>>]

Init == Built /\ hist = NoHistory

--------------------------------------------------------------------------
(* Startup. *)

CameraEntity ==
    Entity({"Camera", "Transform", "Skybox"}, ZERO, IDENTITY)

PlayerComps ==
    {"RigidBody", "Collider", "Restitution", "Damping", "GravityScale",
     "Velocity", "Mesh", "Material", "Transform", "Player"}
PlayerEntity == Entity(PlayerComps, Vec3(0, PLAYER_START_Y, 0), IDENTITY)

LightEntity ==
    Entity({"DirectionalLight", "Transform"}, ZERO,
           Rotation("scaled_axis", Vec3(LIGHT_TILT, 0, 0)))

\* what setup_world spawns, in order
\* (variant with a bug: the player is spawned twice)
TwoPlayers == <<CameraEntity, PlayerEntity, PlayerEntity, LightEntity>>
StartupSpawns == <<CameraEntity, PlayerEntity, LightEntity>>

\* setup_world, with its commands applied at the end of the Startup schedule
setup_world ==
    /\ phase = "Startup"
    /\ load_state' = "Loading"
    /\ cubemap' = [is_loaded |-> FALSE, image_handle |-> "skybox.png"]
    /\ skybox' = "skybox.png"
    /\ entities' = entities \o StartupSpawns
    /\ linvel_x' = 0
    /\ events_b' = Send(events_b, Vec3(0, PLAYER_START_Y, 0))
    /\ event_count' = event_count + 1
    /\ phase' = "First"
    /\ UNCHANGED <<tick, pending, commands, window_mode, pressed, just_pressed,
                   app_state, next_state, events_a, reader_last, image,
                   panicked, hist>>

--------------------------------------------------------------------------
(* The engine's part of a frame. *)

\* the older buffer after Events::update: what the newer one was; the
\* events of the frame before the last are dropped
\* (variant with a bug: nothing is dropped)
OlderKeepingAll(a, b) == a \o b
Older(a, b) == b

\* First: event_update_system = Events::update (swap the buffers, clear the
\* newer one)
event_update_system ==
    /\ phase = "First"
    /\ events_a' = Older(events_a, events_b)
    /\ events_b' = <<>>
    /\ tick' = tick + 1
    /\ hist' = [hist EXCEPT !.emitted = 0]
    /\ phase' = "PreUpdate"
    /\ UNCHANGED <<pending, entities, commands, linvel_x, window_mode, pressed,
                   just_pressed, app_state, next_state, event_count,
                   reader_last, cubemap, load_state, image, skybox, panicked>>

\* the image files skybox.png may hold: width, height (a strip of six faces,
\* a single square, a strip that does not divide into faces)
ImageFiles == {<<1, 6>>, <<1, 1>>, <<2, 5>>}

\* PreUpdate: keyboard_input_system (Input::press inserts into just_pressed
\* only a key that was not pressed) and the asset server's progress.
\* K: the key sets the player may hold; L: the load states the asset may
\* move to from Loading.
PreUpdate(K, L) ==
    /\ phase = "PreUpdate"
    /\ \E k \in K :
          /\ pressed' = k
          /\ just_pressed' = k \ pressed
          /\ hist' = [hist EXCEPT !.f11_odd = (@ # ("F11" \in k \ pressed))]
    /\ \E l \in {load_state} \cup (IF load_state = "Loading" THEN L ELSE {}),
          f \in ImageFiles :
          /\ load_state' = l
          /\ image' = IF l = "Loaded" /\ load_state = "Loading"
                      THEN [width |-> f[1], height |-> f[2],
                            layers |-> 1, view |-> "None"]
                      ELSE image
    /\ phase' = "StateTransition"
    /\ UNCHANGED <<tick, pending, entities, commands, linvel_x, window_mode,
                   app_state, next_state, events_a, events_b, event_count,
                   reader_last, cubemap, skybox, panicked>>

\* StateTransition: apply_state_transition::<AppState> takes NextState and
\* makes it the State when it differs
apply_state_transition ==
    /\ phase = "StateTransition"
    /\ app_state' = IF next_state = "None" THEN app_state ELSE next_state
    /\ next_state' = "None"
    /\ pending' = Systems
    /\ phase' = "Update"
    /\ UNCHANGED <<tick, entities, commands, linvel_x, window_mode, pressed,
                   just_pressed, events_a, events_b, event_count, reader_last,
                   cubemap, load_state, image, skybox, panicked, hist>>

\* the world after the queued spawn commands are applied: each spawns a
\* new entity, none touches an existing one
\* (variant with a bug: a new segment replaces the segments before it)
ApplyReplacing(world, cmds) ==
    IF cmds = <<>> THEN world
    ELSE SelectSeq(world, LAMBDA e : "RigidBody" \in e.comps \/ "Collider" \notin e.comps)
            \o cmds
Apply(world, cmds) == world \o cmds

\* the end of Update: the deferred commands are applied
apply_deferred ==
    /\ phase = "Update"
    /\ pending = {}
    /\ entities' = Apply(entities, commands)
    /\ commands' = <<>>
    /\ phase' = "PostUpdate"
    /\ UNCHANGED <<tick, pending, linvel_x, window_mode, pressed, just_pressed,
                   app_state, next_state, events_a, events_b, event_count,
                   reader_last, cubemap, load_state, image, skybox, panicked,
                   hist>>

\* PostUpdate: the physics plugin moves the player and may change its
\* velocity.  P: the translations it may move to; V: the velocities it may
\* leave besides the current one; T: the last frame explored.
physics(P, V, T) ==
    /\ phase = "PostUpdate"
    /\ tick < T
    /\ IsSingle(PlayerQuery)
    /\ \E p \in P :
          /\ entities' = [entities EXCEPT ![TheOne(PlayerQuery)].translation = p]
          /\ hist' = [hist EXCEPT
                !.prev_z = PlayerZ,
                !.run_spawns =
                    IF Trigger(PlayerZ) /\ Trigger(p[3]) THEN @ ELSE 0]
    /\ linvel_x' \in {linvel_x} \cup V
    /\ phase' = "First"
    /\ UNCHANGED <<tick, pending, commands, window_mode, pressed, just_pressed,
                   app_state, next_state, events_a, events_b, event_count,
                   reader_last, cubemap, load_state, image, skybox, panicked>>

--------------------------------------------------------------------------
(* The Update systems.  Each runs once per frame, when the engine picks it *)
(* among those still pending.                                              *)

\* a system has run
Ran(name) == pending' = pending \ {name}

\* an unwrap, single() or assert of `name` failed: the process is gone
Panic(name) ==
    /\ phase' = "Panicked"
    /\ panicked' = name
    /\ UNCHANGED <<tick, pending, entities, commands, linvel_x, window_mode,
                   pressed, just_pressed, app_state, next_state, events_a,
                   events_b, event_count, reader_last, cubemap, load_state,
                   image, skybox, hist>>

\* image.reinterpret_stacked_2d_as_array(height / width), then the cube view
Reinterpret(img) ==
    LET n == img.height \div img.width
    IN  [img EXCEPT !.layers = n, !.height = img.height \div n, !.view = "Cube"]

\* reinterpret_stacked_2d_as_array asserts height % layers == 0
CanReinterpret(img) ==
    /\ img.height \div img.width > 0
    /\ img.height % (img.height \div img.width) = 0

\* the condition under which correct_skybox runs its body
\* (variants with a bug: is_loaded is not consulted; the load state is not)
SkyboxDueUnloaded == ~cubemap.is_loaded
SkyboxDueAlways == load_state = "Loaded"
SkyboxDue == ~cubemap.is_loaded /\ load_state = "Loaded"

\* cubemap.is_loaded = true at the end of the body
MarkLoaded == [cubemap EXCEPT !.is_loaded = TRUE]

correct_skybox ==
    /\ phase = "Update"
    /\ "correct_skybox" \in pending
    /\ IF ~SkyboxDue
       THEN /\ Ran("correct_skybox")
            /\ UNCHANGED <<phase, panicked, image, skybox, cubemap, hist>>
       ELSE IF image.layers = 1 /\ ~CanReinterpret(image)
       THEN Panic("correct_skybox")
       ELSE /\ Ran("correct_skybox")
            /\ image' = IF image.layers = 1 THEN Reinterpret(image) ELSE image
            /\ skybox' = IF SkyboxQuery = {} THEN skybox
                         ELSE cubemap.image_handle
            /\ cubemap' = MarkLoaded
            /\ hist' = [hist EXCEPT !.body_runs = @ + 1,
                                    !.loaded_at = tick]
            /\ UNCHANGED <<phase, panicked>>
    /\ UNCHANGED <<tick, entities, commands, linvel_x, window_mode, pressed,
                   just_pressed, app_state, next_state, events_a, events_b,
                   event_count, reader_last, load_state>>

\* the camera's Transform after follow_player, for the player at p
\* (variant with a bug: += for =)
FollowAccumulating(cam, p) ==
    [cam EXCEPT
        !.translation = Vec3(cam.translation[1] + p[1],
                             cam.translation[2] + p[2] + CAM_UP,
                             cam.translation[3] + p[3] + CAM_BACK),
        !.rotation = Rotation("looking_to", Vec3(0, -CAM_UP, -CAM_BACK))]
Follow(cam, p) ==
    LET t == Vec3(p[1] + 0, p[2] + CAM_UP, p[3] + CAM_BACK)
    IN  [cam EXCEPT
            !.translation = t,
            \* looking_at(target, up) = looking_to(target - translation, up)
            !.rotation = Rotation("looking_to",
                                  Vec3(p[1] - t[1], p[2] - t[2], p[3] - t[3]))]

follow_player ==
    /\ phase = "Update"
    /\ "follow_player" \in pending
    /\ IF ~IsSingle(CameraQuery) \/ ~IsSingle(PlayerQuery)
       THEN Panic("follow_player")
       ELSE /\ Ran("follow_player")
            /\ entities' = [entities EXCEPT ![TheOne(CameraQuery)] =
                                Follow(@, PlayerPos)]
            /\ UNCHANGED <<phase, panicked, tick, commands, linvel_x,
                           window_mode, pressed, just_pressed, app_state,
                           next_state, events_a, events_b, event_count,
                           reader_last, cubemap, load_state, image, skybox,
                           hist>>

\* player.linvel.x after handle_input, for the keys held
\* (variant with a bug: the speed is clamped to 0.5)
StepClamped(v, keys) ==
    LET a == IF "A" \in keys THEN F32Sub(v, DELTA) ELSE v
        b == IF "S" \in keys THEN F32Add(a, DELTA) ELSE a
    IN  IF b > 5 * DELTA THEN 5 * DELTA
        ELSE IF b < -(5 * DELTA) THEN -(5 * DELTA) ELSE b
Step(v, keys) ==
    LET a == IF "A" \in keys THEN F32Sub(v, DELTA) ELSE v
    IN  IF "S" \in keys THEN F32Add(a, DELTA) ELSE a

\* window.mode after a press of F11
\* (variant with a bug: fullscreen is never left)
ToggleStuck(mode) == "BorderlessFullscreen"
Toggle(mode) ==
    IF mode = "BorderlessFullscreen" THEN "Windowed" ELSE "BorderlessFullscreen"

\* history: the run of consecutive frames in which A alone (or S alone) is
\* held, and what handle_input has added to linvel.x over it
KeyRun(run, keys, before, after) ==
    LET k == IF keys \cap {"A", "S"} = {"A"} THEN "A"
             ELSE IF keys \cap {"A", "S"} = {"S"} THEN "S" ELSE "none"
    IN  IF k = "none" THEN NoRun
        ELSE IF k = run.key
        THEN [key |-> k, n |-> run.n + 1, delta |-> run.delta + (after - before)]
        ELSE [key |-> k, n |-> 1, delta |-> after - before]

handle_input ==
    /\ phase = "Update"
    /\ "handle_input" \in pending
    /\ IF ~IsSingle(VelocityQuery) \/ ~IsSingle(WindowQuery)
       THEN Panic("handle_input")
       ELSE /\ Ran("handle_input")
            /\ linvel_x' = Step(linvel_x, pressed)
            /\ window_mode' = IF "F11" \in just_pressed
                              THEN Toggle(window_mode) ELSE window_mode
            /\ hist' = [hist EXCEPT !.key_run =
                            KeyRun(@, pressed, linvel_x, linvel_x')]
            /\ UNCHANGED <<phase, panicked, tick, entities, commands, pressed,
                           just_pressed, app_state, next_state, events_a,
                           events_b, event_count, reader_last, cubemap,
                           load_state, image, skybox>>

\* the floor segment generate_floor spawns for the player at translation t
\* (variant with a bug: the - 2.0 is left out)
SegmentAtPlayerHeight(t) ==
    Entity({"Collider", "Mesh", "Material", "Transform"},
           Vec3(t[1], t[2], t[3]),
           Rotation("rotation_x", Vec3(FLOOR_TILT, 0, 0)))
Segment(t) ==
    Entity({"Collider", "Mesh", "Material", "Transform"},
           Vec3(t[1], t[2] - FLOOR_DROP, t[3]),
           Rotation("rotation_x", Vec3(FLOOR_TILT, 0, 0)))

\* generate_floor.run_if(in_state(AppState::Idle))
\* (variant with a bug: no run condition)
AlwaysRuns == TRUE
FloorEnabled == app_state = "Idle"

generate_floor ==
    /\ phase = "Update"
    /\ "generate_floor" \in pending
    /\ IF ~FloorEnabled
       THEN \* the run condition is false: the system is skipped this frame
            /\ Ran("generate_floor")
            /\ UNCHANGED <<phase, panicked, commands, reader_last, hist>>
       ELSE IF Unread # <<>> /\ ~IsSingle(PlayerQuery)
       THEN Panic("generate_floor")
       ELSE /\ Ran("generate_floor")
            /\ commands' = commands \o
                    [k \in 1..Len(Unread) |-> Segment(PlayerPos)]
            /\ reader_last' = event_count
            /\ hist' = [hist EXCEPT
                    !.run_spawns = @ + Len(Unread),
                    !.causes = @ \o [k \in 1..Len(Unread) |-> Unread[k]]]
            /\ UNCHANGED <<phase, panicked>>
    /\ UNCHANGED <<tick, entities, linvel_x, window_mode, pressed,
                   just_pressed, app_state, next_state, events_a, events_b,
                   event_count, cubemap, load_state, image, skybox>>

\* the entities of a query in iteration (spawn) order
RECURSIVE InOrder(_)
InOrder(q) ==
    IF q = {} THEN <<>>
    ELSE LET i == CHOOSE j \in q : \A k \in q : j <= k
         IN  <<i>> \o InOrder(q \ {i})

\* the state check_distance queues for a player at z
\* (variant with a bug: Idle is never queued)
QueuedAlwaysGenerated(z) == "Generated"
Queued(z) == IF Trigger(z) THEN "Generated" ELSE "Idle"

\* whether check_distance sends a request for a player at z
Sends(z) == Trigger(z)

check_distance ==
    /\ phase = "Update"
    /\ "check_distance" \in pending
    /\ Ran("check_distance")
    /\ LET players == InOrder(PlayerQuery)
           sending == SelectSeq(players,
                          LAMBDA i : Sends(entities[i].translation[3]))
       IN  /\ events_b' = events_b \o
                  [k \in 1..Len(sending) |->
                      [id |-> event_count + k - 1, tick |-> tick,
                       at |-> entities[sending[k]].translation,
                       state |-> app_state]]
           /\ event_count' = event_count + Len(sending)
           /\ next_state' =
                  IF players = <<>> THEN next_state
                  ELSE Queued(entities[players[Len(players)]].translation[3])
           /\ hist' = [hist EXCEPT !.emitted = @ + Len(sending)]
    /\ UNCHANGED <<phase, panicked, tick, entities, commands, linvel_x,
                   window_mode, pressed, just_pressed, app_state, events_a,
                   reader_last, cubemap, load_state, image, skybox>>

--------------------------------------------------------------------------
(* The environments the specifications explore. *)

\* where the physics may put the player (x, y, z in tenths): the spawn
\* point, and places on either side of a multiple of ten, downhill (z < 0)
\* and uphill
Positions ==
    {Vec3(0, 40, 0), Vec3(0, 25, -5), Vec3(2, -10, -95), Vec3(1, -20, -100),
     Vec3(-1, -15, -105), Vec3(3, 10, 94), Vec3(3, 10, 106), Vec3(0, 10, 84)}

\* the load states skybox.png may reach
Outcomes == {"Loaded", "Failed"}

--------------------------------------------------------------------------
(* Spec: the player is moved about and the image loads or fails; no key   *)
(* is held.                                                                *)

Next ==
    \/ setup_world
    \/ event_update_system
    \/ PreUpdate({{}}, Outcomes)
    \/ apply_state_transition
    \/ correct_skybox
    \/ follow_player
    \/ handle_input
    \/ generate_floor
    \/ check_distance
    \/ apply_deferred
    \/ physics(Positions, {}, MaxTick)

Spec == Init /\ [][Next]_vars

--------------------------------------------------------------------------
(* SpecInput: keys are pressed and released while the player stays where   *)
(* it spawned; the physics may stop the ball's sideways motion.            *)

\* the keys held together in a frame
KeySets == {{}, {"A"}, {"S"}, {"A", "S"}, {"F11"}, {"A", "F11"}}

NextInput ==
    \/ setup_world
    \/ event_update_system
    \/ PreUpdate(KeySets, {})
    \/ apply_state_transition
    \/ correct_skybox
    \/ follow_player
    \/ handle_input
    \/ generate_floor
    \/ check_distance
    \/ apply_deferred
    \/ physics({Vec3(0, PLAYER_START_Y, 0)}, {0}, MaxInputTick)

SpecInput == Init /\ [][NextInput]_vars

--------------------------------------------------------------------------
(* SpecSweep: after the first frame the player is put at any z of a range  *)
(* of tenths around 0, -10 and 10, and stays there.                        *)

MaxSweepZ == 115

Sweep == {Vec3(0, 10, z) : z \in -MaxSweepZ..MaxSweepZ}

NextSweep ==
    \/ setup_world
    \/ event_update_system
    \/ PreUpdate({{}}, {})
    \/ apply_state_transition
    \/ correct_skybox
    \/ follow_player
    \/ handle_input
    \/ generate_floor
    \/ check_distance
    \/ apply_deferred
    \/ physics(IF tick = 1 THEN Sweep ELSE {PlayerPos}, {}, MaxTick)

SpecSweep == Init /\ [][NextSweep]_vars

--------------------------------------------------------------------------
(* SpecOrder: the program is run twice over the same sequence of player    *)
(* positions.  In every frame of the first run the engine runs             *)
(* check_distance before generate_floor, in every frame of the second run  *)
(* generate_floor before check_distance.                                   *)

MaxOrderTick == 3

\* the player's translation after each frame but the last
Paths == [1..(MaxOrderTick - 1) -> Positions]

InitOrder ==
    /\ Built
    /\ \E p \in Paths :
          hist = [NoHistory EXCEPT !.order = "check_distance", !.path = p]

\* everything generate_floor has spawned, in order: the segments in the
\* world, then those still queued
Spawned ==
    SelectSeq(entities, LAMBDA e : "Collider" \in e.comps /\ "RigidBody" \notin e.comps)
        \o commands

\* the system may run now: it is the one the run puts first, or that one
\* has run in this frame
Ordered(name) ==
    hist.order = "any" \/ hist.order = name \/ hist.order \notin pending

\* the first run is over: the program is started again, on the same path,
\* with the other order
Replay ==
    /\ phase = "PostUpdate"
    /\ tick = MaxOrderTick
    /\ hist.order = "check_distance"
    /\ phase' = "Startup"
    /\ tick' = 0
    /\ pending' = {}
    /\ entities' = <<Entity({"Window"}, ZERO, IDENTITY)>>
    /\ commands' = <<>>
    /\ linvel_x' = 0
    /\ window_mode' = "Windowed"
    /\ pressed' = {}
    /\ just_pressed' = {}
    /\ app_state' = "Idle"
    /\ next_state' = "None"
    /\ events_a' = <<>>
    /\ events_b' = <<>>
    /\ event_count' = 0
    /\ reader_last' = 0
    /\ cubemap' = [is_loaded |-> FALSE, image_handle |-> "none"]
    /\ load_state' = "NotLoaded"
    /\ image' = [width |-> 0, height |-> 0, layers |-> 0, view |-> "None"]
    /\ skybox' = "none"
    /\ panicked' = "none"
    /\ hist' = [NoHistory EXCEPT !.order = "generate_floor",
                                 !.path = hist.path,
                                 !.first = Spawned]

NextOrder ==
    \/ setup_world
    \/ event_update_system
    \/ PreUpdate({{}}, {})
    \/ apply_state_transition
    \/ correct_skybox
    \/ follow_player
    \/ handle_input
    \/ (Ordered("generate_floor") /\ generate_floor)
    \/ (Ordered("check_distance") /\ check_distance)
    \/ apply_deferred
    \/ physics({hist.path[tick]}, {}, MaxOrderTick)
    \/ Replay

SpecOrder == InitOrder /\ [][NextOrder]_vars

--------------------------------------------------------------------------
(* Vocabulary of the properties. *)

\* every Update system of the frame has run (the commands are not applied
\* yet, the physics has not moved the player yet)
EndOfUpdate == phase = "Update" /\ pending = {}

\* the systems of the frame are running or have run
InFrame == phase \in {"Update", "PostUpdate"}

\* ceil(|z|) mod 10 = 0, the trigger as the specification words it
SpecTrigger(z) ==
    LET a == IF z < 0 THEN -z ELSE z
    IN  \E m \in 0..3 : 100 * m - 10 < a /\ a <= 100 * m

\* |ceil(z)| mod 10 = 0, stated without ceil: z lies in (10m - 1, 10m] for
\* an integer m
DueAt(z) == \E m \in -3..3 : 100 * m - 10 < z /\ z <= 100 * m

--------------------------------------------------------------------------
(* C1 *)

\* C1 as stated: in every frame in which ceil(|z|) mod 10 = 0 and AppState
\* is Idle, check_distance emits exactly one GenerateMapEvent and queues
\* Generated.
C1_AsStated ==
    (EndOfUpdate /\ SpecTrigger(PlayerZ) /\ app_state = "Idle")
        => (hist.emitted = 1 /\ next_state = "Generated")

\* C1 amended: in every frame in which |ceil(z)| mod 10 = 0 and AppState is
\* Idle, check_distance emits exactly one GenerateMapEvent and queues
\* Generated, and AppState is Generated in the frame that follows.
C1_OneRequestWhenIdle ==
    /\ (EndOfUpdate /\ DueAt(PlayerZ) /\ app_state = "Idle")
          => (hist.emitted = 1 /\ next_state = "Generated")
    /\ (InFrame /\ tick >= 2 /\ DueAt(hist.prev_z)) => app_state = "Generated"

C1_Witness ==
    /\ EndOfUpdate /\ tick >= 3
    /\ PlayerZ = -105 /\ app_state = "Idle"
    /\ hist.emitted = 1 /\ next_state = "Generated"

--------------------------------------------------------------------------
(* C2 *)

\* C2 as stated: in a frame in which the trigger holds and AppState is
\* already Generated, check_distance emits no GenerateMapEvent.
C2_AsStated ==
    (EndOfUpdate /\ SpecTrigger(PlayerZ) /\ app_state = "Generated")
        => hist.emitted = 0

\* C2 amended: in a frame in which |ceil(z)| mod 10 = 0 and AppState is
\* already Generated, check_distance still emits one GenerateMapEvent and
\* queues Generated; it is generate_floor that does nothing, being disabled,
\* so no floor segment is spawned in that frame.
C2_SuppressedByRunCondition ==
    (EndOfUpdate /\ DueAt(PlayerZ) /\ app_state = "Generated")
        => /\ hist.emitted = 1
           /\ next_state = "Generated"
           /\ commands = <<>>

C2_Witness ==
    /\ EndOfUpdate /\ tick >= 3
    /\ DueAt(PlayerZ) /\ DueAt(hist.prev_z) /\ PlayerZ # hist.prev_z
    /\ app_state = "Generated" /\ hist.emitted = 1 /\ commands = <<>>

--------------------------------------------------------------------------
(* C3 *)

\* C3: over a maximal run of consecutive frames in which the trigger holds,
\* generate_floor spawns at most one floor segment, the first run included.
C3_AtMostOneSpawnPerRun == hist.run_spawns <= 1

--------------------------------------------------------------------------
(* C4 *)

\* C4 as stated: once a frame has observed ceil(|z|) mod 10 # 0, AppState
\* is Idle in the next frame, so generate_floor is enabled in it.
C4_AsStated ==
    (InFrame /\ tick >= 2 /\ ~SpecTrigger(hist.prev_z)) => app_state = "Idle"

\* C4 amended: once a frame has observed |ceil(z)| mod 10 # 0,
\* check_distance has queued Idle, and AppState is Idle throughout the next
\* frame's Update, so generate_floor is enabled in it.
C4_RearmedNextFrame ==
    /\ (EndOfUpdate /\ ~DueAt(PlayerZ)) => next_state = "Idle"
    /\ (InFrame /\ tick >= 2 /\ ~DueAt(hist.prev_z))
          => (app_state = "Idle" /\ FloorEnabled)

C4_Witness ==
    /\ phase = "Update" /\ "generate_floor" \in pending /\ tick >= 3
    /\ ~DueAt(hist.prev_z) /\ DueAt(PlayerZ)
    /\ app_state = "Idle"

--------------------------------------------------------------------------
(* C5 *)

\* C5: every floor segment generate_floor has spawned lies at (x, y - 2, z)
\* for the player's translation (x, y, z) in the frame its request was
\* emitted, tilted by -22.5 degrees about the X axis.
C5_PlacedAtTriggerPosition ==
    /\ Len(Spawned) = Len(hist.causes)
    /\ \A k \in 1..Len(Spawned) :
          LET at == hist.causes[k].at
          IN  /\ Spawned[k].translation = <<at[1], at[2] - 20, at[3]>>
              /\ Spawned[k].rotation = [kind |-> "rotation_x", arg |-> <<-225, 0, 0>>]

C5_Witness ==
    \E k \in 1..Len(Spawned) :
        /\ hist.causes[k].tick >= 2
        /\ Spawned[k].translation = <<-1, -35, -105>>

--------------------------------------------------------------------------
(* C6 *)

\* C6 as stated: neither the frame at z = 9.4 nor the following frame at
\* z = 10.6 satisfies the trigger: no GenerateMapEvent is emitted and no
\* segment is spawned in either.
C6_AsStated ==
    (EndOfUpdate /\ (PlayerZ = 94 \/ (PlayerZ = 106 /\ hist.prev_z = 94)))
        => (hist.emitted = 0 /\ commands = <<>>)

\* C6 amended: the frame at z = 9.4 satisfies the trigger (ceil(9.4) = 10)
\* and check_distance emits one GenerateMapEvent in it; the frame at
\* z = 10.6 does not, and nothing is emitted or spawned in it.  A jump that
\* skips the trigger is one such as z = 8.4 to z = 10.6: nothing is emitted
\* or spawned in either frame.
C6_TriggerAtNinePointFour ==
    /\ (EndOfUpdate /\ PlayerZ = 94) => hist.emitted = 1
    /\ (EndOfUpdate /\ PlayerZ \in {84, 106})
          => (hist.emitted = 0 /\ commands = <<>>)

C6_Witness ==
    /\ EndOfUpdate /\ PlayerZ = 106 /\ hist.prev_z = 94
    /\ hist.emitted = 0 /\ commands = <<>>

--------------------------------------------------------------------------
(* C7 *)

\* this step is a run of follow_player
FollowPlayerRuns ==
    /\ phase = "Update" /\ phase' = "Update"
    /\ "follow_player" \in pending /\ "follow_player" \notin pending'

\* C7: a run of follow_player leaves the camera at the player's translation
\* plus (0, 5, 10), whatever the camera's Transform was, and changes nothing
\* but the camera's Transform.
C7_CameraFollows ==
    [][FollowPlayerRuns =>
        LET c == TheOne(CameraQuery)
            p == PlayerPos
        IN  /\ entities'[c].translation = <<p[1], p[2] + 50, p[3] + 100>>
            /\ entities'[c].comps = entities[c].comps
            /\ Len(entities') = Len(entities)
            /\ \A i \in DOMAIN entities : i # c => entities'[i] = entities[i]
            /\ pending' = pending \ {"follow_player"}
            /\ UNCHANGED <<tick, commands, linvel_x, window_mode, pressed,
                           just_pressed, app_state, next_state, events_a,
                           events_b, event_count, reader_last, cubemap,
                           load_state, image, skybox, panicked, hist>>]_vars

C7_Witness ==
    /\ phase = "Update" /\ "follow_player" \notin pending /\ tick >= 2
    /\ PlayerPos = <<-1, -15, -105>> /\ hist.prev_z = 94
    /\ entities[TheOne(CameraQuery)].translation = <<-1, 35, -5>>

--------------------------------------------------------------------------
(* C8 (under SpecInput) *)

\* this step is a run of handle_input
HandleInputRuns ==
    /\ phase = "Update" /\ phase' = "Update"
    /\ "handle_input" \in pending /\ "handle_input" \notin pending'

\* C8 as stated: after N consecutive frames of A alone (S alone),
\* handle_input has changed linvel.x by exactly N x 0.1, downwards
\* (upwards).  Read in the code's favour: by N times the f32 0.1, or by the
\* f32 nearest to that product.
C8_AsStated ==
    /\ hist.key_run.key = "A"
          => hist.key_run.delta \in {-(hist.key_run.n * DELTA),
                                     -F32Round(hist.key_run.n * DELTA)}
    /\ hist.key_run.key = "S"
          => hist.key_run.delta \in {hist.key_run.n * DELTA,
                                     F32Round(hist.key_run.n * DELTA)}

\* C8 amended: in each frame in which A alone (S alone) is held,
\* handle_input replaces linvel.x by the f32 nearest to linvel.x - 0.1
\* (linvel.x + 0.1): it moves strictly in the key's direction, by 0.1 up to
\* half a unit in the last place of the result, with no decay and no clamp;
\* with neither key held it leaves linvel.x alone.  Over N frames the change
\* is N x 0.1 up to the accumulated rounding only.
C8_LinearUpToRounding ==
    [][HandleInputRuns =>
        LET held == pressed \cap {"A", "S"}
            ulp == UlpOf(IF linvel_x' < 0 THEN -linvel_x' ELSE linvel_x', 1)
            errA == linvel_x' - (linvel_x - 13421773)
            errS == linvel_x' - (linvel_x + 13421773)
        IN  /\ held = {"A"} =>
                  /\ linvel_x' < linvel_x
                  /\ 2 * errA <= ulp /\ -2 * errA <= ulp
            /\ held = {"S"} =>
                  /\ linvel_x' > linvel_x
                  /\ 2 * errS <= ulp /\ -2 * errS <= ulp
            /\ held = {} => linvel_x' = linvel_x]_vars

\* seven frames of A alone from rest: -0.70000005, not -0.7
C8_Witness ==
    /\ hist.key_run = [key |-> "A", n |-> 7, delta |-> -93952416]
    /\ linvel_x = -93952416

--------------------------------------------------------------------------
(* C9 *)

\* C9: Cubemap.is_loaded starts false, becomes true at most once and never
\* false again; the body of correct_skybox runs at most once; once
\* is_loaded is true no step changes the image, the Skybox or the Cubemap.
C9_OneShot ==
    /\ [](hist.body_runs <= 1 /\ (cubemap.is_loaded <=> hist.body_runs = 1))
    /\ [][cubemap.is_loaded =>
            /\ cubemap' = cubemap
            /\ image' = image
            /\ skybox' = skybox
            /\ hist'.body_runs = hist.body_runs]_vars

C9_Witness ==
    /\ phase = "Update" /\ "correct_skybox" \notin pending
    /\ cubemap.is_loaded /\ hist.loaded_at >= 1 /\ hist.loaded_at < tick
    /\ image = [width |-> 1, height |-> 1, layers |-> 6, view |-> "Cube"]

--------------------------------------------------------------------------
(* C10 *)

\* C10: once setup_world has run there is exactly one Player entity and
\* exactly one camera entity in every state, every single-entity query of
\* follow_player, handle_input and generate_floor matches exactly one
\* entity, and none of the three has panicked.
C10_OnePlayerOneCamera ==
    phase # "Startup" =>
        /\ Cardinality({i \in DOMAIN entities : "Player" \in entities[i].comps}) = 1
        /\ Cardinality({i \in DOMAIN entities : "Camera" \in entities[i].comps}) = 1
        /\ Cardinality(CameraQuery) = 1
        /\ Cardinality(PlayerQuery) = 1
        /\ Cardinality(VelocityQuery) = 1
        /\ panicked \notin {"follow_player", "handle_input", "generate_floor"}

C10_Witness ==
    /\ phase = "PostUpdate" /\ tick >= 3
    /\ Len(Spawned) >= 2
    /\ Cardinality(PlayerQuery) = 1 /\ Cardinality(CameraQuery) = 1
    /\ panicked = "none"


--------------------------------------------------------------------------
(* C11 *)

\* C11: as long as the skybox image has not reached Loaded (it is loading,
\* or its load has failed), the body of correct_skybox has never run:
\* is_loaded is false, the image and the Skybox component are as
\* setup_world left them, and correct_skybox has not panicked.
C11_SilentStall ==
    (phase # "Startup" /\ load_state # "Loaded") =>
        /\ ~cubemap.is_loaded
        /\ hist.body_runs = 0
        /\ image = [width |-> 0, height |-> 0, layers |-> 0, view |-> "None"]
        /\ skybox = "skybox.png"
        /\ panicked = "none"

C11_Witness ==
    /\ phase = "PostUpdate" /\ tick >= 3
    /\ load_state = "Failed"
    /\ ~cubemap.is_loaded /\ hist.body_runs = 0 /\ panicked = "none"


--------------------------------------------------------------------------
(* C12 *)

\* C12: floor segments are never removed, merged or changed: in every step
\* the sequence of spawned segments keeps each segment it had, with the
\* transform and components it was spawned with, and can only get longer.
C12_SegmentsOnlyGrow ==
    [][/\ Len(Spawned') >= Len(Spawned)
       /\ \A k \in 1..Len(Spawned) : Spawned'[k] = Spawned[k]]_vars

C12_Witness ==
    /\ phase = "First" /\ tick >= 3
    /\ Len(Spawned) >= 2 /\ commands = <<>>
    /\ Spawned[1] = Segment(Vec3(0, PLAYER_START_Y, 0))
    /\ Spawned[Len(Spawned)].translation # Spawned[1].translation
    /\ PlayerPos # Vec3(0, PLAYER_START_Y, 0)


--------------------------------------------------------------------------
(* C13 *)

\* C13 as stated: for every z, check_distance's trigger is true (it emits a
\* GenerateMapEvent) exactly when ceil(|z|) mod 10 = 0.
C13_AsStated ==
    EndOfUpdate => ((hist.emitted = 1) <=> SpecTrigger(PlayerZ))

\* C13 amended: for every z, check_distance's trigger is true exactly when
\* |ceil(z)| mod 10 = 0, i.e. when z lies in (10m - 1, 10m] for an integer
\* m.  This is ceil(|z|) mod 10 = 0 for z >= 0 and for integer z, and
\* differs from it at negative fractional z: there the trigger is true
\* exactly when (ceil(|z|) - 1) mod 10 = 0.
C13_AbsOfCeil ==
    EndOfUpdate =>
        /\ hist.emitted = (IF DueAt(PlayerZ) THEN 1 ELSE 0)
        /\ (PlayerZ >= 0 \/ PlayerZ % 10 = 0)
              => ((hist.emitted = 1) <=> SpecTrigger(PlayerZ))
        /\ (PlayerZ < 0 /\ PlayerZ % 10 # 0)
              => ((hist.emitted = 1) <=>
                    \E m \in 0..3 : 100 * m < -PlayerZ /\ -PlayerZ < 100 * m + 10)

C13_Witness ==
    /\ EndOfUpdate /\ tick >= 2
    /\ PlayerZ = -5 /\ ~SpecTrigger(PlayerZ)
    /\ hist.emitted = 1


--------------------------------------------------------------------------
(* C14 *)

\* C14: no generation request is lost: once the Update of a frame is over,
\* every GenerateMapEvent that was sent while AppState was Idle in the frame
\* before (or at startup) has been consumed by generate_floor, which
\* spawned a segment for it.
C14_NoRequestLost ==
    phase = "PostUpdate" =>
        \A k \in 1..Len(events_a) :
            events_a[k].state = "Idle" =>
                \E j \in 1..Len(hist.causes) :
                    /\ hist.causes[j].id = events_a[k].id
                    /\ j <= Len(Spawned)


--------------------------------------------------------------------------
(* C15 *)

\* C15: each new press of F11 (released in the frame before, pressed in
\* this one) flips the window between Windowed and BorderlessFullscreen,
\* and nothing else changes the mode: a run of handle_input flips the mode
\* when F11 has just been pressed and leaves it otherwise, so that, starting
\* from Windowed, the window is in BorderlessFullscreen exactly after an odd
\* number of presses, however long each press is held.
C15_TogglePerPress ==
    /\ []((phase \in {"Update", "PostUpdate", "First"} /\ tick >= 1
              /\ "handle_input" \notin pending)
            => (window_mode = IF hist.f11_odd THEN "BorderlessFullscreen"
                              ELSE "Windowed"))
    /\ [][HandleInputRuns =>
            window_mode' =
                IF "F11" \in just_pressed
                THEN (IF window_mode = "Windowed" THEN "BorderlessFullscreen"
                      ELSE "Windowed")
                ELSE window_mode]_vars
    /\ [][phase = "PreUpdate" =>
            ("F11" \in just_pressed' <=>
                ("F11" \in pressed' /\ "F11" \notin pressed))]_vars

C15_Witness ==
    /\ phase = "PostUpdate" /\ tick >= 5
    /\ "F11" \in just_pressed
    /\ window_mode = "Windowed" /\ ~hist.f11_odd


--------------------------------------------------------------------------
(* C16 *)

\* C16: the segments spawned do not depend on the order of generate_floor
\* and check_distance within a frame: over the same sequence of player
\* positions, the run in which generate_floor goes first in every frame
\* ends with as many segments, at the same translations, as the run in
\* which check_distance goes first in every frame.
C16_OrderIndependent ==
    (hist.order = "generate_floor" /\ phase = "PostUpdate"
        /\ tick = MaxOrderTick)
      => /\ Len(Spawned) = Len(hist.first)
         /\ \A k \in 1..Len(Spawned) :
               Spawned[k].translation = hist.first[k].translation


--------------------------------------------------------------------------
(* C17 *)

\* C17: generate_floor never spawns from a stale request: every event it
\* has consumed was sent while AppState was Idle, and every segment queued
\* in a frame is queued while AppState is Idle for an event sent in that
\* same frame, in which |ceil(z)| mod 10 = 0 -- but for the startup
\* request, consumed in the first frame.  An event sent in a frame in
\* which generate_floor was disabled is never consumed.
C17_NoStaleSpawn ==
    /\ \A j \in 1..Len(hist.causes) : hist.causes[j].state = "Idle"
    /\ phase = "Update" =>
          \A j \in 1..Len(commands) :
              LET e == hist.causes[Len(hist.causes) - Len(commands) + j]
              IN  /\ app_state = "Idle"
                  /\ \/ e.tick = tick /\ DueAt(PlayerZ)
                     \/ e.tick = 0 /\ tick = 1

C17_Witness ==
    /\ phase = "Update" /\ tick = 4
    /\ commands # <<>> /\ app_state = "Idle"
    /\ event_count = 4
    /\ Len(hist.causes) = 3 /\ hist.causes[3].id = 3

====
